---- MODULE Spec2Model ----
(***************************************************************************)
(* Model of zip-random-access (lib/index.js): the Zip class, its           *)
(* constructor, init(), _calculateZipSize(), getStream(), _startNextFile() *)
(* and _startOutput(), together with the part of the yazl ZipFile encoder  *)
(* that these methods drive (addReadStream / end / the entry pump).        *)
(*                                                                         *)
(* Byte buffers are represented by their lengths, streams by their state.  *)
(* All sizes stay far below the ZIP64 thresholds, so the encoder's ZIP64   *)
(* branches are not modelled.                                              *)
(***************************************************************************)
EXTENDS Integers, Sequences, FiniteSets, TLC

(* ------------------------------ bounds --------------------------------- *)
MaxFiles == 2       \* longest entry list handed to the constructor
MaxFileSize == 3    \* largest declared entry size
MaxOutputs == 2     \* most streams created by getStream in one run

(* --------------------------- JS value helpers -------------------------- *)
\* JavaScript `null` for the nullable numeric fields (size, file.size,
\* _currentFileIndex).
NULL == -1000

\* JS truthiness of a nullable number: null and 0 are falsy.
Truthy(x) == x # NULL /\ x # 0

\* A number passed by the caller: an integer v, or the non-integer v + 1/2.
IntArg(v) == [int |-> TRUE, v |-> v]
FracArg(v) == [int |-> FALSE, v |-> v]

\* is-it-type predicates used by the asserts.
isPositiveIntegerOrZero(x) == x.int /\ x.v >= 0
isPositiveInteger(x) == x.int /\ x.v > 0

\* `n + file.size` in JS: null converts to 0.
ToNumber(x) == IF x = NULL THEN 0 ELSE x

(* ------------------------------- state --------------------------------- *)
VARIABLES
    files,              \* this._files: <<[path, filename, size, crc32Watcher, compressedSizeCounter]>>
    size,               \* this.size
    chunks,             \* this._chunks: <<[offset, len]>>
    zip,                \* this._zip (encoder state)
    outputs,            \* this._outputs: set of [stream, offset, length, pos]
    currentFileIndex,   \* this._currentFileIndex
    nextFileIndex,      \* this._nextFileIndex
    currentSize,        \* this._currentSize
    streams,            \* the PassThrough streams created, by id: "open" (returned to
                        \* the caller), "destroyed" (closed by the caller) or
                        \* "unreturned" (the creating call threw)
    requested,          \* history: the (offset, length) asked for stream id
    calculated,         \* history: _calculateZipSize has run to completion
    lastCall,           \* history: the last call made and how it ended
    ctor,               \* history: the constructor's argument and the error it threw
    headerWrites        \* environment: how many buffers the encoder writes for an
                        \* entry's local file header during addReadStream (yazl: 1)

vars == <<files, size, chunks, zip, outputs, currentFileIndex, nextFileIndex,
          currentSize, streams, requested, calculated, lastCall, ctor,
          headerWrites>>

\* Everything the Zip object holds (the session state).
zipState == <<files, size, chunks, zip, outputs, currentFileIndex, nextFileIndex,
              currentSize>>

(* ------------------------ yazl encoder (ZipFile) ----------------------- *)
\* Length of the buffers the encoder emits for an entry whose archive name
\* is `filename` (stored, not ZIP64).
LocalFileHeaderLen(filename) == 30 + Len(filename)
DataDescriptorLen == 16
CentralDirectoryRecordLen(filename) == 46 + Len(filename)
EndOfCentralDirectoryRecordLen == 22

\* new ZipFile()
NewZipFile == [entries |-> <<>>, outputStreamCursor |-> 0]

\* Index of the first entry that is not FILE_DATA_DONE (0 if none).
RECURSIVE FirstNotDone(_, _)
FirstNotDone(entries, i) ==
    IF i > Len(entries) THEN 0
    ELSE IF entries[i].state # "FILE_DATA_DONE" THEN i
    ELSE FirstNotDone(entries, i + 1)

\* The buffers the encoder passes to zip.outputStream.write() for the local
\* file header of `filename`, with zip.outputStreamCursor at each write.
\* yazl writes the header as one buffer; an encoder that breaks this
\* emission contract writes none during the call, or the fixed part and
\* the name separately.
HeaderBuffers(cursor, filename) ==
    IF headerWrites = 0 THEN <<>>
    ELSE IF headerWrites = 1
    THEN <<[offset |-> cursor, len |-> LocalFileHeaderLen(filename)]>>
    ELSE <<[offset |-> cursor, len |-> LocalFileHeaderLen("")],
           [offset |-> cursor + LocalFileHeaderLen(""), len |-> Len(filename)]>>

\* zip.outputStreamCursor after the writes.
BuffersEnd(cursor, writes) ==
    IF writes = <<>> THEN cursor
    ELSE writes[Len(writes)].offset + writes[Len(writes)].len

\* zip.addReadStream(readStream, filename, {compress: false, size}) with a
\* read stream that never emits data or end.  Returns the new encoder
\* state, the buffers written to zip.outputStream (offset = cursor at the
\* time of the write), whether readStream.pipe() was called, and the error
\* thrown if any.
addReadStream(z, filename, sz) ==
    IF filename = ""
    THEN [zip |-> z, writes |-> <<>>, piped |-> FALSE, threw |-> "empty metadataPath"]
    ELSE LET entry == [state |-> "READY_TO_PUMP_FILE_DATA",
                       filename |-> filename, uncompressedSize |-> sz]
             es == Append(z.entries, entry)
             i == FirstNotDone(es, 1)
         IN IF es[i].state = "FILE_DATA_IN_PROGRESS"
            THEN \* an earlier entry is still being pumped: nothing written
                 [zip |-> [z EXCEPT !.entries = es],
                  writes |-> <<>>, piped |-> FALSE, threw |-> "none"]
            ELSE \* local file header written, file data pump started
                 LET writes == HeaderBuffers(z.outputStreamCursor, es[i].filename)
                 IN [zip |-> [entries |-> [es EXCEPT ![i].state = "FILE_DATA_IN_PROGRESS"],
                              outputStreamCursor |-> BuffersEnd(z.outputStreamCursor, writes)],
                     writes |-> writes,
                     piped |-> (i = Len(es)),
                     threw |-> "none"]

\* The final size the encoder predicts at zip.end(callback): -1 when some
\* entry has no declared size, else the length of the whole archive.
RECURSIVE calculateFinalSizeFrom(_, _, _, _)
calculateFinalSizeFrom(entries, i, pretendOutputCursor, centralDirectorySize) ==
    IF i > Len(entries)
    THEN pretendOutputCursor + centralDirectorySize + EndOfCentralDirectoryRecordLen
    ELSE IF entries[i].uncompressedSize = NULL THEN -1
    ELSE calculateFinalSizeFrom(entries, i + 1,
            pretendOutputCursor + LocalFileHeaderLen(entries[i].filename)
                + entries[i].uncompressedSize + DataDescriptorLen,
            centralDirectorySize + CentralDirectoryRecordLen(entries[i].filename))

calculateFinalSize(z) == calculateFinalSizeFrom(z.entries, 1, 0, 0)

(* ---------------------------- constructor ------------------------------ *)
\* _calculateZipSize(): a fresh encoder fed every entry with a fake stream,
\* then zip.end() whose callback stores the size; assert(this.size).
\* Mutant: the loop leaves the `size` option out of addReadStream.
RECURSIVE AddAll_NoSizeOption(_, _, _)
AddAll_NoSizeOption(z, fs, i) ==
    IF i > Len(fs) THEN [zip |-> z, threw |-> "none"]
    ELSE LET r == addReadStream(z, fs[i].filename, NULL)
         IN IF r.threw # "none" THEN [zip |-> r.zip, threw |-> r.threw]
            ELSE AddAll_NoSizeOption(r.zip, fs, i + 1)

RECURSIVE AddAll(_, _, _)
AddAll(z, fs, i) ==
    IF i > Len(fs) THEN [zip |-> z, threw |-> "none"]
    ELSE LET r == addReadStream(z, fs[i].filename, fs[i].size)
         IN IF r.threw # "none" THEN [zip |-> r.zip, threw |-> r.threw]
            ELSE AddAll(r.zip, fs, i + 1)

_calculateZipSize(fs, oldSize) ==
    LET r == AddAll(NewZipFile, fs, 1)
        sz == IF r.threw = "none" THEN calculateFinalSize(r.zip) ELSE oldSize
    IN IF r.threw # "none" THEN [size |-> oldSize, threw |-> r.threw]
       ELSE IF ~Truthy(sz) THEN [size |-> sz, threw |-> "Failed to calculate size"]
       ELSE [size |-> sz, threw |-> "none"]

\* is-it-type predicates on the constructor's argument: a descriptor
\* carries the kind of value it is (`type`), the typeof of its path and
\* filename properties and whether its size is an integer (a size of v
\* with sizeInt = FALSE stands for v + 1/2; NULL for null or undefined).
isArray(arg) == arg.isArray
isObject(file) == file.type = "object"
isString(typeOf) == typeOf = "string"

\* The asserts of the files.map() callback: the first that fails.
FileAssert(file) ==
    IF ~isObject(file) THEN "files must be objects or strings"
    ELSE IF ~isString(file.pathType)
    THEN "file objects must have a string path property"
    ELSE IF ~isString(file.filenameType)
    THEN "file objects must have a string filename property"
    ELSE IF file.size # NULL
            /\ ~isPositiveIntegerOrZero([int |-> file.sizeInt, v |-> file.size])
    THEN "file objects' .size property must be an integer or null"
    ELSE "none"

\* Index of the first descriptor of fs (from i on) that fails an assert,
\* 0 if none does.
RECURSIVE FirstInvalid(_, _)
FirstInvalid(fs, i) ==
    IF i > Len(fs) THEN 0
    ELSE IF FileAssert(fs[i]) # "none" THEN i
    ELSE FirstInvalid(fs, i + 1)

\* The files.map() callback: conform one descriptor.
ConformFile(file) ==
    [path |-> file.path, filename |-> file.filename, size |-> file.size,
     crc32Watcher |-> FALSE, compressedSizeCounter |-> FALSE]

AllFileSizesKnown(fs) == \A i \in 1..Len(fs) : fs[i].size # NULL

\* The constructor once `files` passed validation; _calculateZipSize() is
\* called when every size is known (or, with `always`, in any case).
constructorConformed(fileArgs, always) ==
    LET fs == [i \in 1..Len(fileArgs) |-> ConformFile(fileArgs[i])]
        calculate == always \/ AllFileSizesKnown(fs)
        r == IF calculate THEN _calculateZipSize(fs, NULL)
             ELSE [size |-> NULL, threw |-> "none"]
    IN [files |-> fs, size |-> r.size,
        calculated |-> calculate /\ r.threw = "none", threw |-> r.threw]

\* The constructor up to the end of validation, then constructorConformed.
constructorValidated(arg, always) ==
    IF ~isArray(arg)
    THEN [files |-> <<>>, size |-> NULL, calculated |-> FALSE,
          threw |-> "files must be an array"]
    ELSE LET bad == FirstInvalid(arg.files, 1)
         IN IF bad # 0
            THEN [files |-> <<>>, size |-> NULL, calculated |-> FALSE,
                  threw |-> FileAssert(arg.files[bad])]
            ELSE constructorConformed(arg.files, always)

\* Mutant: the size is calculated whether or not every size was given.
constructor_AlwaysCalculates(arg) ==
    constructorValidated(arg, TRUE)

\* constructor(files): the fields after construction and the error thrown.
constructor(arg) == constructorValidated(arg, FALSE)

\* The descriptors and entry lists the constructor is given.
Names == {"a.txt", "bb.txt"}
\* Declared sizes: an empty file, the largest file, or no size given.
SizeArgs == {0, MaxFileSize, NULL}
FileArgs == [type : {"object"}, path : {"p"}, pathType : {"string"},
             filename : Names, filenameType : {"string"},
             size : SizeArgs, sizeInt : {TRUE}]
FileLists == UNION {[1..n -> FileArgs] : n \in 0..MaxFiles}

\* Descriptors that are malformed in one respect: not an object; path or
\* filename missing, not a string or empty; size negative or non-integer.
GoodFileArg == [type |-> "object", path |-> "p", pathType |-> "string",
                filename |-> "a.txt", filenameType |-> "string",
                size |-> 0, sizeInt |-> TRUE]
BadFileArgs ==
    {[GoodFileArg EXCEPT !.type = "string"],
     [GoodFileArg EXCEPT !.path = "", !.pathType = "undefined"],
     [GoodFileArg EXCEPT !.path = "", !.pathType = "number"],
     [GoodFileArg EXCEPT !.path = ""],
     [GoodFileArg EXCEPT !.filename = "", !.filenameType = "undefined"],
     [GoodFileArg EXCEPT !.filename = "", !.filenameType = "number"],
     [GoodFileArg EXCEPT !.filename = ""],
     [GoodFileArg EXCEPT !.filename = "", !.size = NULL],
     [GoodFileArg EXCEPT !.size = -1],
     [GoodFileArg EXCEPT !.sizeInt = FALSE]}
\* Entry lists ending in a malformed descriptor.
BadFileLists ==
    {Append(fs, bad) : fs \in {l \in FileLists : Len(l) < MaxFiles},
                       bad \in BadFileArgs}

\* The constructor's argument: an array of descriptors, or not an array.
ConstructorArgs ==
    {[isArray |-> TRUE, files |-> fs] : fs \in FileLists \cup BadFileLists}
        \cup {[isArray |-> FALSE, files |-> <<>>]}

InitFor(encoders) ==
    \E arg \in ConstructorArgs, hw \in encoders :
        LET c == constructor(arg)
        IN /\ headerWrites = hw
           /\ ctor = [arg |-> arg, threw |-> c.threw]
           /\ files = c.files
           /\ size = c.size
           /\ calculated = c.calculated
           /\ chunks = <<>>
           /\ zip = NewZipFile
           /\ outputs = {}
           /\ currentFileIndex = NULL
           /\ nextFileIndex = 0
           /\ currentSize = 0
           /\ streams = <<>>
           /\ requested = <<>>
           /\ lastCall = [op |-> "constructor", threw |-> c.threw]

\* The encoder is yazl: one buffer per local file header.
Init == InitFor({1})

\* The encoder is any one of: no header buffer, one, two.
EncoderInit == InitFor({0, 1, 2})

\* The methods can be called on an object the constructor returned.
Constructed == ctor.threw = "none"

(* -------------------------------- init() ------------------------------- *)
\* init(): returns at once when this.size is set; otherwise iterates
\* `this.files`, a property the class never defines (the entries are kept
\* in `this._files`), so the for-of throws a TypeError before any stat.
\* Mutant: the early return on a known size is missing.
init_NoEarlyReturn ==
    /\ Constructed
    /\ UNCHANGED <<files, size, chunks, zip, outputs, currentFileIndex,
                   nextFileIndex, currentSize, streams, requested, calculated, ctor, headerWrites>>
    /\ lastCall' = [op |-> "init", threw |-> "TypeError: this.files is not iterable"]

init ==
    /\ Constructed
    /\ UNCHANGED <<files, size, chunks, zip, outputs, currentFileIndex,
                   nextFileIndex, currentSize, streams, requested, calculated, ctor, headerWrites>>
    /\ lastCall' = [op |-> "init",
                    threw |-> IF Truthy(size) THEN "none"
                              ELSE "TypeError: this.files is not iterable"]

(* --------------------------- _startNextFile() -------------------------- *)
\* this._currentSize once the entry `file` has started: the end of its data.
currentSizeAfter_HeaderOnly(localFileHeaderChunk, file) ==
    localFileHeaderChunk.offset + localFileHeaderChunk.len

currentSizeAfter(localFileHeaderChunk, file) ==
    localFileHeaderChunk.offset + localFileHeaderChunk.len + ToNumber(file.size)

\* The two asserts after addReadStream: the error of the first that fails.
\* Mutant: the check of the number of chunks is missing (a missing chunk
\* then makes the read of localFileHeaderChunk.offset throw).
startAssert_NoChunkCheck(numChunks, chunks2, file) ==
    IF Len(chunks2) < numChunks + 1
    THEN "TypeError: cannot read properties of undefined"
    ELSE IF ~(file.crc32Watcher /\ file.compressedSizeCounter)
    THEN "Failed to capture yazl streams"
    ELSE "none"

startAssert(numChunks, chunks2, file) ==
    IF Len(chunks2) # numChunks + 1
    THEN "yazl did not write local file header"
    ELSE IF ~(file.crc32Watcher /\ file.compressedSizeCounter)
    THEN "Failed to capture yazl streams"
    ELSE "none"

\* The body of _startNextFile() with this._currentFileIndex set to cfi: the
\* fields it leaves behind, and the error it throws.
startFileAt(cfi) ==
    IF cfi >= Len(files)
    THEN \* file is undefined: reading file.filename throws
         [currentFileIndex |-> cfi, files |-> files, chunks |-> chunks,
          zip |-> zip, currentSize |-> currentSize,
          threw |-> "TypeError: cannot read properties of undefined"]
    ELSE LET file == files[cfi + 1]
             numChunks == Len(chunks)
             r == addReadStream(zip, file.filename, file.size)
             chunks2 == chunks \o r.writes
             files2 == IF r.piped
                       THEN [files EXCEPT ![cfi + 1].crc32Watcher = TRUE,
                                          ![cfi + 1].compressedSizeCounter = TRUE]
                       ELSE files
             file2 == files2[cfi + 1]
             base == [currentFileIndex |-> cfi, files |-> files2,
                      chunks |-> chunks2, zip |-> r.zip,
                      currentSize |-> currentSize, threw |-> r.threw]
             err == startAssert(numChunks, chunks2, file2)
         IN IF r.threw # "none" THEN base
            ELSE IF err # "none" THEN [base EXCEPT !.threw = err]
            ELSE [base EXCEPT !.currentSize =
                        currentSizeAfter(chunks2[numChunks + 1], file2)]

\* Mutant: the index is advanced before it is used.
_startNextFile_IndexAdvancedFirst == startFileAt(nextFileIndex + 1)

\* _startNextFile(): this._currentFileIndex = this._nextFileIndex, then the
\* entry is started.
_startNextFile == startFileAt(nextFileIndex)

(* ---------------------------- _startOutput() --------------------------- *)
\* _startOutput(output): the body is empty; the set of outputs it leaves.
_startOutput(outs, output) == outs

(* ------------------------------ getStream() ---------------------------- *)
\* Mutant: the end-of-chunk assert is missing.
getStreamAssert_NoEndCheck(offset, length) ==
    IF ~Truthy(size)
    THEN "Must call zip.init() if file sizes not provided for all files"
    ELSE IF ~isPositiveIntegerOrZero(offset)
    THEN "offset must be a positive integer"
    ELSE IF ~isPositiveInteger(length)
    THEN "length must be a positive integer greater than 0"
    ELSE "none"

\* Mutant: length is checked with isPositiveIntegerOrZero.
getStreamAssert_LengthOrZero(offset, length) ==
    IF ~Truthy(size)
    THEN "Must call zip.init() if file sizes not provided for all files"
    ELSE IF ~isPositiveIntegerOrZero(offset)
    THEN "offset must be a positive integer"
    ELSE IF ~isPositiveIntegerOrZero(length)
    THEN "length must be a positive integer greater than 0"
    ELSE IF ~(offset.v + length.v <= size)
    THEN "End of chunk is beyond end of file"
    ELSE "none"

\* Mutant: only the argument types are asserted, nothing about the size.
getStreamAssert_NoSizeChecks(offset, length) ==
    IF ~isPositiveIntegerOrZero(offset)
    THEN "offset must be a positive integer"
    ELSE IF ~isPositiveInteger(length)
    THEN "length must be a positive integer greater than 0"
    ELSE "none"

\* The error of the first failing precondition assert, "none" if all pass.
getStreamAssert(offset, length) ==
    IF ~Truthy(size)
    THEN "Must call zip.init() if file sizes not provided for all files"
    ELSE IF ~isPositiveIntegerOrZero(offset)
    THEN "offset must be a positive integer"
    ELSE IF ~isPositiveInteger(length)
    THEN "length must be a positive integer greater than 0"
    ELSE IF ~(offset.v + length.v <= size)
    THEN "End of chunk is beyond end of file"
    ELSE "none"

\* The record getStream creates for an accepted request.
\* Mutant: the cursor starts at the beginning of the archive.
NewOutput_PosZero(id, offset, length) ==
    [stream |-> id, offset |-> offset, length |-> length, pos |-> 0]

NewOutput(id, offset, length) ==
    [stream |-> id, offset |-> offset, length |-> length, pos |-> offset]

getStream(offset, length) ==
    LET err == getStreamAssert(offset, length)
    IN /\ Constructed
       /\ UNCHANGED <<ctor, headerWrites>>
       /\ IF err # "none"
          THEN /\ UNCHANGED <<files, size, chunks, zip, outputs, currentFileIndex,
                              nextFileIndex, currentSize, streams, requested, calculated>>
               /\ lastCall' = [op |-> "getStream", threw |-> err]
          ELSE LET id == Len(streams) + 1
                   output == NewOutput(id, offset.v, length.v)
                   added == outputs \cup {output}
               IN /\ Len(streams) < MaxOutputs
                  /\ requested' = Append(requested, [offset |-> offset, length |-> length])
                  /\ UNCHANGED <<size, nextFileIndex, calculated>>
                  /\ IF offset.v < currentSize
                     THEN \* output can start streaming now
                          /\ outputs' = _startOutput(added, output)
                          /\ streams' = Append(streams, "open")
                          /\ UNCHANGED <<files, chunks, zip, currentFileIndex, currentSize>>
                          /\ lastCall' = [op |-> "getStream", threw |-> "none"]
                     ELSE IF currentFileIndex = NULL
                     THEN LET s == _startNextFile
                          IN /\ outputs' = added
                             /\ streams' = Append(streams,
                                   IF s.threw = "none" THEN "open" ELSE "unreturned")
                             /\ files' = s.files
                             /\ chunks' = s.chunks
                             /\ zip' = s.zip
                             /\ currentFileIndex' = s.currentFileIndex
                             /\ currentSize' = s.currentSize
                             /\ lastCall' = [op |-> "getStream", threw |-> s.threw]
                     ELSE /\ outputs' = added
                          /\ streams' = Append(streams, "open")
                          /\ UNCHANGED <<files, chunks, zip, currentFileIndex, currentSize>>
                          /\ lastCall' = [op |-> "getStream", threw |-> "none"]

(* ------------------------- closing a stream ---------------------------- *)
\* The caller destroys (cancels) the PassThrough it was handed.  getStream
\* registers no listener on the stream, so only the stream itself changes.
streamDestroy(id) ==
    /\ Constructed
    /\ id \in 1..Len(streams)
    /\ streams[id] = "open"
    /\ streams' = [streams EXCEPT ![id] = "destroyed"]
    /\ UNCHANGED <<files, size, chunks, zip, outputs, currentFileIndex,
                   nextFileIndex, currentSize, requested, calculated, ctor, headerWrites>>
    /\ lastCall' = [op |-> "destroy", threw |-> "none"]

(* ------------------------------ the calls ------------------------------ *)
\* Offset of the data region of entry k (1-based) in the planned archive.
RECURSIVE EntryDataOffset(_)
EntryDataOffset(k) ==
    IF k = 1 THEN LocalFileHeaderLen(files[1].filename)
    ELSE EntryDataOffset(k - 1) + ToNumber(files[k - 1].size) + DataDescriptorLen
            + LocalFileHeaderLen(files[k].filename)

\* The (offset, length) pairs callers ask for: four that break a
\* precondition on their own, two that run past the end of the archive,
\* and the whole archive, the first data byte of the last entry and the
\* last four bytes.
RequestArgs ==
    {<<IntArg(-1), IntArg(1)>>, <<FracArg(0), IntArg(1)>>,
     <<IntArg(0), IntArg(0)>>, <<IntArg(0), FracArg(1)>>}
        \cup (IF size = NULL THEN {}
              ELSE {<<IntArg(size), IntArg(1)>>, <<IntArg(size - 4), IntArg(5)>>,
                    <<IntArg(0), IntArg(size)>>, <<IntArg(size - 4), IntArg(4)>>})
        \cup (IF Len(files) = 0 THEN {}
              ELSE {<<IntArg(EntryDataOffset(Len(files))), IntArg(1)>>})

Next ==
    \/ init
    \/ \E args \in RequestArgs : getStream(args[1], args[2])
    \/ \E id \in 1..MaxOutputs : streamDestroy(id)

Spec == Init /\ [][Next]_vars

\* The event loop runs whatever is pending; callers may keep calling.
FairSpec == Init /\ [][Next]_vars /\ WF_vars(Next)

\* The program driven by an encoder that may break the emission contract.
EncoderSpec == EncoderInit /\ [][Next]_vars

(* ======================= properties of the program ===================== *)
\* Stream id belongs to a request in the live set.
Live(id) == \E o \in outputs : o.stream = id

\* C1: on a planned archive (here: one with at least one entry) every
\* accepted request (its stream was returned to the caller) eventually
\* completes and leaves the live set, unless the caller closed the stream
\* first.
C1_EveryRequestCompletes ==
    \A id \in 1..MaxOutputs :
        (Len(files) > 0 /\ Live(id) /\ streams[id] = "open")
            ~> (~Live(id) \/ streams[id] = "destroyed")

\* Length of a full sequential build of the entries fs: every entry's local
\* file header, data and data descriptor, then the central directory
\* records, then the end of central directory record.
RECURSIVE EntriesLen(_, _)
EntriesLen(fs, n) ==
    IF n = 0 THEN 0
    ELSE EntriesLen(fs, n - 1) + LocalFileHeaderLen(fs[n].filename)
            + fs[n].size + DataDescriptorLen
RECURSIVE CentralDirectoryLen(_, _)
CentralDirectoryLen(fs, n) ==
    IF n = 0 THEN 0
    ELSE CentralDirectoryLen(fs, n - 1) + CentralDirectoryRecordLen(fs[n].filename)
FullBuildLen(fs) ==
    EntriesLen(fs, Len(fs)) + CentralDirectoryLen(fs, Len(fs))
        + EndOfCentralDirectoryRecordLen

\* C2: when every size was given upfront (0 included), the archive size
\* computed at construction is the length of a full sequential build.
C2_SizeIsFullBuildLength ==
    (Constructed /\ AllFileSizesKnown(files)) => size = FullBuildLen(files)

C2_Witness ==
    /\ Len(files) = 2
    /\ files[1].size = 0
    /\ files[2].size = MaxFileSize
    /\ files[1].filename # files[2].filename
    /\ size = FullBuildLen(files)

\* C3: after init() on an archive constructed with an unknown size, every
\* entry's size is known and the archive size is set (so getStream is
\* accepted afterwards).
C3_InitResolvesSizes ==
    lastCall.op = "init" =>
        /\ lastCall.threw = "none"
        /\ AllFileSizesKnown(files)
        /\ size # NULL

\* C4: every live request has an integer offset >= 0, an integer length >= 1
\* and offset + length <= archive size, and stores exactly the offset and
\* length that were requested.
C4_LiveRequestsInRange ==
    \A o \in outputs :
        /\ size # NULL
        /\ o.offset \in Nat
        /\ o.length \in Nat \ {0}
        /\ o.offset + o.length <= size
        /\ requested[o.stream] = [offset |-> IntArg(o.offset),
                                  length |-> IntArg(o.length)]

C4_Witness ==
    \E o \in outputs : o.offset > 0 /\ o.length = 4 /\ o.offset + o.length = size

\* The precondition of getStream(offset, length) that the call breaks.
ViolatesPrecondition(offset, length) ==
    \/ ~offset.int
    \/ offset.v < 0
    \/ ~length.int
    \/ length.v < 1
    \/ (size # NULL /\ offset.v + length.v > size)

\* C5: a getStream call that breaks a precondition throws and leaves the
\* whole session state (and the streams of the live requests) unchanged.
C5_InvalidCallChangesNothing ==
    [][\A args \in RequestArgs :
          (/\ lastCall'.op = "getStream"
           /\ ViolatesPrecondition(args[1], args[2])
           /\ getStream(args[1], args[2]))
              => /\ lastCall'.threw # "none"
                 /\ UNCHANGED <<zipState, streams>>]_vars

C5_Witness ==
    /\ lastCall.op = "getStream"
    /\ lastCall.threw = "End of chunk is beyond end of file"
    /\ Cardinality(outputs) = 2

\* C6: while some entry size is unknown (archive size null) every getStream
\* call throws, adds no request and does not start the producer.
C6_NotPlannedRejects ==
    [][\A args \in RequestArgs :
          (/\ lastCall'.op = "getStream"
           /\ ~AllFileSizesKnown(files)
           /\ getStream(args[1], args[2]))
              => /\ size = NULL
                 /\ lastCall'.threw # "none"
                 /\ outputs' = outputs
                 /\ outputs = {}
                 /\ UNCHANGED <<currentFileIndex, nextFileIndex, currentSize,
                                chunks, zip, files, streams>>
                 /\ currentFileIndex = NULL]_vars

C6_Witness ==
    /\ lastCall.op = "getStream"
    /\ lastCall.threw = "Must call zip.init() if file sizes not provided for all files"
    /\ size = NULL
    /\ Len(files) = 2

\* C7: the archive size is defined iff every entry's size is known and the
\* size computation has run.
C7_SizeDefinedIffPlanned ==
    (size # NULL) <=> (AllFileSizesKnown(files) /\ calculated)

C7_Witness ==
    /\ lastCall.op = "init"
    /\ size = NULL
    /\ ~AllFileSizesKnown(files)
    /\ \E i \in 1..Len(files) : files[i].size # NULL

\* C8: init() on an archive whose size is known returns without changing
\* anything, and a size once known never changes.
C8_InitIsNoOpWhenPlanned ==
    [][/\ (lastCall'.op = "init" /\ size # NULL)
            => /\ lastCall'.threw = "none"
               /\ UNCHANGED <<files, size, outputs, chunks, zip, currentFileIndex,
                              nextFileIndex, currentSize, streams>>
       /\ (size # NULL => size' = size)
       /\ \A i \in 1..Len(files) :
            files[i].size # NULL
                => (Len(files') = Len(files) /\ files'[i].size = files[i].size)]_vars

C8_Witness ==
    /\ lastCall.op = "init"
    /\ size # NULL
    /\ outputs # {}
    /\ currentFileIndex # NULL

\* C9: a request whose stream the caller has closed is no longer in the
\* live set.
C9_CancelledRequestLeaves ==
    \A o \in outputs : streams[o.stream] # "destroyed"

\* C10: on a freshly planned archive with two entries, getStream(size-4, 4)
\* (a window inside the end of central directory record) leaves
\* _currentFileIndex null and captures no streams for the first entry.
C10_StaticRequestLeavesProducer ==
    [][(/\ Len(files) = 2
        /\ size # NULL
        /\ currentFileIndex = NULL
        /\ getStream(IntArg(size - 4), IntArg(4)))
            => /\ currentFileIndex' = NULL
               /\ ~files'[1].crc32Watcher
               /\ ~files'[1].compressedSizeCounter]_vars

\* A descriptor the constructor is to reject: path or archive name missing,
\* not a string or empty, or a size that is given but negative or not an
\* integer.
MalformedDescriptor(file) ==
    \/ file.pathType # "string"
    \/ file.path = ""
    \/ file.filenameType # "string"
    \/ file.filename = ""
    \/ (file.size # NULL /\ (~file.sizeInt \/ file.size < 0))

\* The errors of the constructor's own validation asserts.
ValidationErrors ==
    {"files must be an array", "files must be objects or strings",
     "file objects must have a string path property",
     "file objects must have a string filename property",
     "file objects' .size property must be an integer or null"}

\* C11: a files argument that is not an array or that holds a malformed
\* descriptor is rejected by validation, before any planning work.
C11_MalformedDescriptorRejected ==
    (\/ ~ctor.arg.isArray
     \/ \E i \in 1..Len(ctor.arg.files) : MalformedDescriptor(ctor.arg.files[i]))
        => (ctor.threw \in ValidationErrors /\ ~calculated)

\* offset lies inside the data region of entry k (1-based).
InDataRegion(offset, k) ==
    /\ k \in 1..Len(files)
    /\ EntryDataOffset(k) <= offset
    /\ offset < EntryDataOffset(k) + ToNumber(files[k].size)

\* The caller has closed stream id.
Destroyed(id) == id <= Len(streams) /\ streams[id] = "destroyed"

\* C12: for every accepted request whose offset lies inside the data region
\* of entry k, the producer eventually reaches entry k (_currentFileIndex
\* is 0-based), unless the caller closed the stream first.
C12_ProducerReachesEntry ==
    \A id \in 1..MaxOutputs, k \in 1..MaxFiles :
        (/\ size # NULL
         /\ Live(id)
         /\ streams[id] = "open"
         /\ \E o \in outputs : o.stream = id /\ InDataRegion(o.offset, k))
            ~> (currentFileIndex = k - 1 \/ Destroyed(id))

\* C13: an entry is started only while no entry is in progress, the entry
\* started is the first one not started yet, and the entries handed to the
\* encoder so far are the first entries of the catalog, in order, each once.
C13_EntriesStartedInOrder ==
    [][/\ (currentFileIndex' # currentFileIndex \/ zip' # zip)
            => /\ currentFileIndex = NULL
               /\ currentFileIndex' = Len(zip.entries)
               /\ Len(zip'.entries) <= Len(zip.entries) + 1
       /\ \A i \in 1..Len(zip'.entries) :
            /\ i <= Len(files')
            /\ zip'.entries[i].filename = files'[i].filename
            /\ zip'.entries[i].uncompressedSize = files'[i].size]_vars

C13_Witness ==
    /\ Len(files) = 2
    /\ files[1].filename # files[2].filename
    /\ currentFileIndex = 0
    /\ Len(zip.entries) = 1
    /\ Cardinality(outputs) = 2

\* C14: every live request has offset <= pos <= offset + length, is created
\* with pos = offset, and its pos never decreases.
C14_CursorWithinWindow ==
    [][/\ \A o \in outputs' :
            /\ o.offset <= o.pos
            /\ o.pos <= o.offset + o.length
            /\ (~\E p \in outputs : p.stream = o.stream) => o.pos = o.offset
       /\ \A p \in outputs, o \in outputs' :
            p.stream = o.stream => o.pos >= p.pos]_vars

C14_Witness ==
    /\ lastCall.op = "init"
    /\ Cardinality(outputs) = 2
    /\ \E o \in outputs : o.offset > 0 /\ o.pos = o.offset

C16_StartNeedsOneHeaderChunk ==
    [][(/\ currentFileIndex = NULL
        /\ currentFileIndex' # NULL
        /\ currentFileIndex' < Len(files)
        /\ Len(chunks') # Len(chunks) + 1)
            => /\ lastCall'.threw # "none"
               /\ currentSize' = currentSize]_vars

C16_Witness ==
    /\ headerWrites = 2
    /\ Len(chunks) = 2
    /\ currentFileIndex = 0
    /\ lastCall.threw = "yazl did not write local file header"
    /\ currentSize = 0

C19_CurrentSizeIsDataEnd ==
    [][/\ currentSize' >= currentSize
       /\ 0 <= currentSize'
       /\ (size' # NULL => currentSize' <= size')
       /\ (currentFileIndex' # NULL /\ currentFileIndex' < Len(files))
            => currentSize' = EntryDataOffset(currentFileIndex' + 1)
                                + files[currentFileIndex' + 1].size]_vars

C19_Witness ==
    /\ Len(files) = 2
    /\ files[1].size = MaxFileSize
    /\ currentFileIndex = 0
    /\ currentSize = EntryDataOffset(1) + MaxFileSize
    /\ \E o \in outputs : o.offset < currentSize
    /\ \E o \in outputs : o.offset >= currentSize

====
